---- MODULE Spec2Model ----
(***************************************************************************)
(* Model of openaicli/cli.py: the credential store (get_api_key), the      *)
(* click group callback (cli) and the six commands.  An invocation of the  *)
(* CLI is a process; concurrent invocations share only config.ini.         *)
(*                                                                         *)
(* config.ini is modelled as a sequence of tokens.  "SEC" is the line      *)
(* "[openai]", "OTH" is another section header, "KEYEQ" is "api_key = ",   *)
(* "NL" is a newline, "a" a non-blank character and " " a blank.           *)
(***************************************************************************)
EXTENDS Integers, Sequences, FiniteSets, TLC

\* Longest line typed at the prompt.
MaxKeyLen == 3

\* Invocations started in one run of the model.
MaxRuns == 2

Chars == {"a", " "}

Procs == {"p1", "p2"}

RECURSIVE SeqsUpTo(_)
SeqsUpTo(n) ==
    IF n = 0 THEN {<<>>}
    ELSE LET shorter == SeqsUpTo(n - 1)
         IN  shorter \cup {Append(s, c) : s \in {t \in shorter : Len(t) = n - 1}, c \in Chars}

\* The lines the user may type at the prompt.
Keys == SeqsUpTo(MaxKeyLen)

----------------------------------------------------------------------------
(* str.strip / str.rstrip / str.lstrip                                     *)

IsSpace(c) == c \in {" ", "NL"}

RECURSIVE LStrip(_)
LStrip(s) == IF s # <<>> /\ IsSpace(Head(s)) THEN LStrip(Tail(s)) ELSE s

RECURSIVE RStrip(_)
RStrip(s) ==
    IF s # <<>> /\ IsSpace(s[Len(s)]) THEN RStrip(SubSeq(s, 1, Len(s) - 1)) ELSE s

Strip(s) == RStrip(LStrip(s))

\* Number of leading blanks of a line (configparser's cur_indent_level).
Indent(line) == Len(line) - Len(LStrip(line))

----------------------------------------------------------------------------
(* configparser.ConfigParser as get_api_key uses it                        *)

\* config['openai'] = {'api_key': api_key}; config.write(f)
ConfigWrite(api_key) == <<"SEC", "NL", "KEYEQ">> \o api_key \o <<"NL", "NL">>

\* A write at offset 0 of a file opened with mode 'w': bytes beyond the
\* written ones (left by another writer after this open truncated) stay.
WriteAtStart(old, new) == new \o SubSeq(old, Len(new) + 1, Len(old))

RECURSIVE SplitLines(_)
SplitLines(data) ==
    IF data = <<>> THEN <<>>
    ELSE LET nl == {i \in 1..Len(data) : data[i] = "NL"}
         IN  IF nl = {} THEN <<data>>
             ELSE LET i == CHOOSE j \in nl : \A k \in nl : j <= k
                  IN  <<SubSeq(data, 1, i - 1)>> \o SplitLines(SubSeq(data, i + 1, Len(data)))

ParserInit ==
    [sect |-> "none", opt |-> FALSE, inKey |-> FALSE, indent |-> 0,
     sections |-> {}, keyed |-> {}, val |-> <<>>,
     perr |-> FALSE, raised |-> "none"]

\* One iteration of the loop of RawConfigParser._read.
ParseLine(st, line) ==
    LET body == Strip(line) IN
    IF st.raised # "none" THEN st
    ELSE IF body = <<>> THEN
        \* empty_lines_in_values: a blank line inside a value is kept
        IF st.sect # "none" /\ st.opt /\ st.inKey
        THEN [st EXCEPT !.val = st.val \o <<"NL">>]
        ELSE st
    ELSE IF st.sect # "none" /\ st.opt /\ Indent(line) > st.indent THEN
        \* continuation line of a multi-line value
        IF st.inKey THEN [st EXCEPT !.val = st.val \o <<"NL">> \o body] ELSE st
    ELSE IF Head(body) \in {"SEC", "OTH"} THEN
        LET name == IF Head(body) = "SEC" THEN "openai" ELSE "other" IN
        IF name \in st.sections
        THEN [st EXCEPT !.raised = "DuplicateSectionError"]
        ELSE [st EXCEPT !.sect = name, !.opt = FALSE, !.inKey = FALSE,
                        !.indent = Indent(line), !.sections = st.sections \cup {name}]
    ELSE IF st.sect = "none" THEN
        [st EXCEPT !.raised = "MissingSectionHeaderError"]
    ELSE IF Head(body) = "KEYEQ" THEN
        IF st.sect \in st.keyed
        THEN [st EXCEPT !.raised = "DuplicateOptionError"]
        ELSE [st EXCEPT !.opt = TRUE, !.inKey = (st.sect = "openai"),
                        !.indent = Indent(line), !.keyed = st.keyed \cup {st.sect},
                        !.val = IF st.sect = "openai" THEN Strip(Tail(body)) ELSE st.val]
    ELSE
        \* no delimiter on the line: collected, raised after the last line
        [st EXCEPT !.perr = TRUE, !.indent = Indent(line)]

RECURSIVE ParseLines(_, _)
ParseLines(st, lines) ==
    IF lines = <<>> THEN st ELSE ParseLines(ParseLine(st, Head(lines)), Tail(lines))

\* config.read(CONFIG_FILE_PATH); config.get('openai', 'api_key')
\* raised is the exception that escapes, "none" when a value is returned.
ConfigGet(data) ==
    LET st == ParseLines(ParserInit, SplitLines(data)) IN
    IF st.raised # "none" THEN [raised |-> st.raised, val |-> <<>>]
    ELSE IF st.perr THEN [raised |-> "ParsingError", val |-> <<>>]
    ELSE IF "openai" \notin st.sections THEN [raised |-> "NoSectionError", val |-> <<>>]
    ELSE IF "openai" \notin st.keyed THEN [raised |-> "NoOptionError", val |-> <<>>]
    ELSE [raised |-> "none", val |-> RStrip(st.val)]

----------------------------------------------------------------------------
(* State                                                                   *)

VARIABLES
    procs,       \* the CLI invocations (processes) that run
    config_file, \* CONFIG_FILE_PATH on disk: [exists, data]
    inv,         \* inv[p]: the running (or finished) invocation of p
    prev,        \* prev[p]: what the previous invocation of p did
    left,        \* invocations not yet started
    last_write   \* api_key of the latest config.write that reached the disk

vars == <<procs, config_file, inv, prev, left, last_write>>

Commands ==
    {"generate_text", "generate_image", "get_quota",
     "summarize", "find_bug", "grammar_correct"}

\* HTTP status codes the provider may answer with.
Statuses == {200, 204, 301, 401}

\* Shapes of a response body: every expected field present; the top-level
\* list (choices / data) missing; the list empty; an element of the list
\* lacking its field (text / url / model, usage, limit).
Bodies == {"ok", "no_list", "empty_list", "no_field"}

Fresh ==
    [pc |-> "idle", cmd |-> "none", saw |-> "unknown", stdin |-> "unused",
     api_key |-> <<>>, resolved |-> FALSE, exc |-> "none",
     prompts |-> 0, writes |-> 0, reads |-> 0, calls |-> 0,
     status |-> 0, parsed |-> FALSE, rows |-> 0,
     err |-> "none", code |-> 0, handled |-> "none", exit |-> 0, out |-> {}]

NoPrev == [valid |-> FALSE, raised |-> "none", val |-> <<>>, prompts |-> 0, writes |-> 0]

\* Files found on disk when the first invocation starts: none, one written
\* by an earlier run, or one that was truncated or edited by hand.
CorruptFiles ==
    { <<>>,
      <<"SEC", "NL">>,
      <<"OTH", "NL", "KEYEQ", "a", "NL">>,
      <<"a", "NL">> }

InitFiles ==
    {[exists |-> FALSE, data |-> <<>>]}
    \cup {[exists |-> TRUE, data |-> ConfigWrite(k)] : k \in Keys}
    \cup {[exists |-> TRUE, data |-> d] : d \in CorruptFiles}

InitCommon ==
    /\ inv = [p \in Procs |-> Fresh]
    /\ prev = [p \in Procs |-> NoPrev]
    /\ left = MaxRuns
    /\ last_write = <<>>

\* One invocation after another.
Init ==
    /\ procs = {"p1"}
    /\ config_file \in InitFiles
    /\ InitCommon

\* Concurrent invocations that start with no configuration file.
InitConc ==
    /\ procs = Procs
    /\ config_file = [exists |-> FALSE, data |-> <<>>]
    /\ InitCommon

----------------------------------------------------------------------------
(* How an invocation ends                                                  *)

\* An exception no handler catches: traceback, exit status 1.
Uncaught(r, kind, exception) ==
    [r EXCEPT !.pc = "done", !.err = kind, !.exc = exception,
              !.handled = "uncaught", !.exit = 1, !.out = r.out \cup {"traceback"}]

\* click.Abort (raised by cli, or by click itself on EOFError): exit status 1.
Abort(r, message) ==
    [r EXCEPT !.pc = "done", !.err = "NoCredential", !.handled = "abort",
              !.exit = 1, !.out = r.out \cup message \cup {"Aborted!"}]

\* The callback returns normally: exit status 0.
Return(r, kind, printed) ==
    [r EXCEPT !.pc = "done", !.err = kind,
              !.handled = IF kind = "none" THEN "none" ELSE "message",
              !.exit = 0, !.out = r.out \cup printed]

----------------------------------------------------------------------------
(* Entry point oa = openaicli.cli:cli                                      *)

Invoke(p) ==
    /\ inv[p].pc \in {"idle", "done"}
    /\ left > 0
    /\ left' = left - 1
    /\ inv' = [inv EXCEPT ![p] = [Fresh EXCEPT !.pc = "exists"]]
    /\ prev' = [prev EXCEPT ![p] =
                  IF inv[p].pc = "idle" THEN NoPrev
                  ELSE [valid |-> TRUE,
                        raised |-> IF inv[p].resolved THEN "none" ELSE inv[p].exc,
                        val |-> inv[p].api_key,
                        prompts |-> inv[p].prompts, writes |-> inv[p].writes]]
    /\ UNCHANGED <<procs, config_file, last_write>>

----------------------------------------------------------------------------
(* get_api_key                                                             *)

\* A get_api_key that prompts whether or not the file exists.
BranchAlwaysInput(exists) == "input"

\* Branch taken at `if not os.path.exists(CONFIG_FILE_PATH)`.
BranchOnExists(exists) == IF exists THEN "read" ELSE "input"

get_api_key_exists(p) ==
    /\ inv[p].pc = "exists"
    /\ inv' = [inv EXCEPT ![p].pc = BranchOnExists(config_file.exists),
                          ![p].saw = IF config_file.exists THEN "present" ELSE "absent"]
    /\ UNCHANGED <<procs, config_file, prev, left, last_write>>

\* input(...) returns the line typed ...
get_api_key_input(p) ==
    /\ inv[p].pc = "input"
    /\ \E k \in Keys :
         inv' = [inv EXCEPT ![p].pc = "open", ![p].stdin = "line",
                            ![p].api_key = k, ![p].prompts = inv[p].prompts + 1]
    /\ UNCHANGED <<procs, config_file, prev, left, last_write>>

\* ... or raises EOFError when there is no input; click turns it into Abort.
get_api_key_eof(p) ==
    /\ inv[p].pc = "input"
    /\ inv' = [inv EXCEPT ![p] =
                 Abort([inv[p] EXCEPT !.stdin = "eof", !.exc = "EOFError",
                                      !.prompts = inv[p].prompts + 1], {})]
    /\ UNCHANGED <<procs, config_file, prev, left, last_write>>

\* open(CONFIG_FILE_PATH, 'w') creates the file or truncates it.
get_api_key_open(p) ==
    /\ inv[p].pc = "open"
    /\ config_file' = [exists |-> TRUE, data |-> <<>>]
    /\ inv' = [inv EXCEPT ![p].pc = "write"]
    /\ UNCHANGED <<procs, prev, left, last_write>>

\* config.write(f) and the close of the with block: the buffered text
\* reaches the disk at offset 0; get_api_key returns the line typed.
get_api_key_write(p) ==
    /\ inv[p].pc = "write"
    /\ config_file' = [exists |-> TRUE,
                       data |-> WriteAtStart(config_file.data, ConfigWrite(inv[p].api_key))]
    /\ last_write' = inv[p].api_key
    /\ inv' = [inv EXCEPT ![p].pc = "cli", ![p].resolved = TRUE,
                          ![p].writes = inv[p].writes + 1]
    /\ UNCHANGED <<procs, prev, left>>

\* The else branch: config.read and config.get.
get_api_key_read(p) ==
    /\ inv[p].pc = "read"
    /\ LET got == ConfigGet(config_file.data)
           r == [inv[p] EXCEPT !.reads = inv[p].reads + 1]
       IN  inv' = [inv EXCEPT ![p] =
                 IF got.raised # "none"
                 THEN Uncaught(r, "ConfigReadError", got.raised)
                 ELSE [r EXCEPT !.pc = "cli", !.resolved = TRUE, !.api_key = got.val]]
    /\ UNCHANGED <<procs, config_file, prev, left, last_write>>

----------------------------------------------------------------------------
(* cli: the group callback, run before every command                       *)

\* A cli that lets an empty key through.
KeyMissingNever(api_key) == FALSE

\* `not openai.api_key`
KeyMissing(api_key) == api_key = <<>>

cli(p) ==
    /\ inv[p].pc = "cli"
    /\ inv' = [inv EXCEPT ![p] =
                 IF KeyMissing(inv[p].api_key)
                 THEN Abort(inv[p], {"error_message"})
                 ELSE [inv[p] EXCEPT !.pc = "command"]]
    /\ UNCHANGED <<procs, config_file, prev, left, last_write>>

----------------------------------------------------------------------------
(* The commands                                                            *)

Success(status) == status \in 200..299

\* What the body of a try block does with the provider's answer.  The
\* openai library raises on a transport fault and on a non-2xx status;
\* indexing the answer raises when the list or the field is missing.
\* `except Exception` prints one message and the command returns.
InsideTry(r, name, fault, status, body) ==
    LET sent == [r EXCEPT !.cmd = name, !.calls = r.calls + 1] IN
    IF fault THEN Return(sent, "TransportError", {"error_message"})
    ELSE LET got == [sent EXCEPT !.status = status] IN
         IF ~Success(status) THEN Return(got, "HttpStatus", {"error_message"})
         ELSE IF body # "ok"
              THEN Return([got EXCEPT !.parsed = TRUE], "MalformedResponse", {"error_message"})
              ELSE Return([got EXCEPT !.parsed = TRUE], "none", {"result"})

\* openai.Completion.create(...); response.choices[0].text.strip()
Completion(p, name) ==
    /\ inv[p].pc = "command"
    /\ \E fault \in BOOLEAN, status \in Statuses, body \in Bodies :
         inv' = [inv EXCEPT ![p] = InsideTry(inv[p], name, fault, status, body)]
    /\ UNCHANGED <<procs, config_file, prev, left, last_write>>

generate_text(p) == Completion(p, "generate_text")

summarize(p) == Completion(p, "summarize")

find_bug(p) == Completion(p, "find_bug")

grammar_correct(p) == Completion(p, "grammar_correct")

\* openai.Image.create(...); response['data'][0]['url']
generate_image(p) ==
    /\ inv[p].pc = "command"
    /\ \E fault \in BOOLEAN, status \in Statuses, body \in Bodies :
         inv' = [inv EXCEPT ![p] = InsideTry(inv[p], "generate_image", fault, status, body)]
    /\ UNCHANGED <<procs, config_file, prev, left, last_write>>

\* A get_quota that rejects only the 4xx and 5xx codes.
StatusRejectedFrom400(status) == status >= 400

\* `if resp.status_code != 200`
StatusRejected(status) == status # 200

\* requests.get is outside any try block, and so is the indexing of the
\* parsed body; the header line is printed before the body is indexed.
QuotaOutcome(r, fault, status, body) ==
    LET sent == [r EXCEPT !.cmd = "get_quota", !.calls = r.calls + 1] IN
    IF fault THEN Uncaught(sent, "TransportError", "ConnectionError")
    ELSE LET got == [sent EXCEPT !.status = status] IN
         IF StatusRejected(status)
         THEN Return([got EXCEPT !.code = status], "HttpStatus", {"error_message"})
         ELSE LET shown == [got EXCEPT !.parsed = TRUE, !.out = got.out \cup {"header"}] IN
              IF body \in {"no_list", "no_field"}
              THEN Uncaught(shown, "MalformedResponse", "KeyError")
              ELSE Return([shown EXCEPT !.rows = IF body = "ok" THEN 1 ELSE 0],
                          "none", {"table"})

get_quota(p) ==
    /\ inv[p].pc = "command"
    /\ \E fault \in BOOLEAN, status \in Statuses, body \in Bodies :
         inv' = [inv EXCEPT ![p] = QuotaOutcome(inv[p], fault, status, body)]
    /\ UNCHANGED <<procs, config_file, prev, left, last_write>>

----------------------------------------------------------------------------

Next ==
    \E p \in procs :
        \/ Invoke(p)
        \/ get_api_key_exists(p)
        \/ get_api_key_input(p)
        \/ get_api_key_eof(p)
        \/ get_api_key_open(p)
        \/ get_api_key_write(p)
        \/ get_api_key_read(p)
        \/ cli(p)
        \/ generate_text(p)
        \/ generate_image(p)
        \/ get_quota(p)
        \/ summarize(p)
        \/ find_bug(p)
        \/ grammar_correct(p)

Spec == Init /\ [][Next]_vars

SpecConc == InitConc /\ [][Next]_vars

----------------------------------------------------------------------------
(* Properties                                                              *)

Finished(r) == r.pc = "done"

\* The invocation's call of get_api_key has returned a non-empty key.
HasCredential(r) == r.resolved /\ r.api_key # <<>>

Partial == {"header", "table", "result"}

\* C1: an invocation that found no configuration file prompted exactly
\* once, and when the line typed was empty it ended with NoCredential,
\* wrote no file, and the file is still absent.
C1_EmptyPromptWritesNothing ==
    \A p \in procs :
        (Finished(inv[p]) /\ inv[p].saw = "absent") =>
            /\ inv[p].prompts = 1
            /\ (inv[p].stdin = "line" /\ inv[p].api_key = <<>>) =>
                  /\ inv[p].err = "NoCredential"
                  /\ inv[p].writes = 0
                  /\ ~config_file.exists

\* C2: two calls of get_api_key in sequence that both return, return the
\* same value, with at most one prompt and one file write between them.
C2_ResolveIdempotent ==
    \A p \in procs :
        (prev[p].valid /\ prev[p].raised = "none" /\ inv[p].resolved) =>
            /\ inv[p].api_key = prev[p].val
            /\ inv[p].prompts + prev[p].prompts <= 1
            /\ inv[p].writes + prev[p].writes <= 1

\* C3: an invocation makes at most one network call, none before
\* get_api_key has returned a non-empty key, and when it has ended exactly
\* one if the key was non-empty and none otherwise.
C3_OneCallPerInvocation ==
    \A p \in procs :
        /\ inv[p].calls <= 1
        /\ inv[p].calls = 1 => HasCredential(inv[p])
        /\ Finished(inv[p]) =>
              inv[p].calls = IF HasCredential(inv[p]) THEN 1 ELSE 0

\* An invocation whose single call failed has ended without a second call.
C3_Witness ==
    \E p \in procs :
        /\ Finished(inv[p]) /\ inv[p].calls = 1
        /\ inv[p].err \in {"TransportError", "HttpStatus"}

\* C4: an invocation that hit an error was not ended by an uncaught
\* exception, printed a message, printed no partial result and exited with
\* a non-zero status.
C4_ErrorsExitNonZero ==
    \A p \in procs :
        (Finished(inv[p]) /\ inv[p].err # "none") =>
            /\ inv[p].handled # "uncaught"
            /\ inv[p].out \cap {"error_message", "Aborted!"} # {}
            /\ inv[p].out \cap Partial = {}
            /\ inv[p].exit # 0

\* C5: a transport fault of the network call is caught and reported by a
\* message, in every command.
C5_TransportFaultCaught ==
    \A p \in procs :
        (Finished(inv[p]) /\ inv[p].err = "TransportError") =>
            inv[p].handled = "message"

\* C6: a response with a successful status whose body lacks an expected
\* field is reported by a message, without a crash and without any partial
\* output.
C6_MissingFieldReported ==
    \A p \in procs :
        (Finished(inv[p]) /\ inv[p].err = "MalformedResponse") =>
            /\ inv[p].handled = "message"
            /\ inv[p].out \cap Partial = {}

\* C7: when get_quota receives a status outside 200..299 it reports that
\* code, never parses the body and prints no usage row.
C7_QuotaNon2xxReported ==
    \A p \in procs :
        (inv[p].cmd = "get_quota" /\ inv[p].status # 0 /\ ~Success(inv[p].status)) =>
            /\ Finished(inv[p])
            /\ inv[p].err = "HttpStatus"
            /\ inv[p].code = inv[p].status
            /\ ~inv[p].parsed
            /\ inv[p].rows = 0
            /\ inv[p].out \cap Partial = {}

\* get_quota has received a 401 and reported it.
C7_Witness ==
    \E p \in procs :
        /\ Finished(inv[p]) /\ inv[p].cmd = "get_quota"
        /\ inv[p].status = 401 /\ inv[p].code = 401

\* C8: when the configuration file exists and cannot be parsed, or lacks
\* the section or the key, the invocation that read it ends with
\* ConfigReadError, not with an uncaught exception, and makes no call.
C8_CorruptConfigReported ==
    \A p \in procs :
        (inv[p].saw = "present" /\ inv[p].reads = 1
            /\ ConfigGet(config_file.data).raised # "none") =>
            /\ inv[p].err = "ConfigReadError"
            /\ inv[p].handled # "uncaught"
            /\ inv[p].calls = 0

CompleteEntry(data) == \E k \in Keys : data = ConfigWrite(k)

AllFinished == left = 0 /\ \A p \in procs : inv[p].pc \in {"idle", "done"}

\* C9: with concurrent invocations the file is always absent or one
\* complete entry, an invocation that found the file present read a key
\* from it, and once all have ended the file is the last writer's entry.
C9_FileAbsentOrComplete ==
    /\ config_file.exists => CompleteEntry(config_file.data)
    /\ \A p \in procs :
          (inv[p].saw = "present" /\ inv[p].reads = 1) => inv[p].resolved
    /\ (AllFinished /\ config_file.exists) =>
          config_file.data = ConfigWrite(last_write)

\* C10 as stated: an invocation that found the file present neither
\* prompts nor writes, only one that found it absent writes, and no call
\* is dispatched before the file has been read.
C10_ReadEveryInvocation ==
    \A p \in procs :
        /\ inv[p].saw = "present" => inv[p].prompts = 0 /\ inv[p].writes = 0
        /\ inv[p].writes > 0 => inv[p].saw = "absent"
        /\ inv[p].calls > 0 => inv[p].reads >= 1

\* C10 amended: an invocation that found the file present neither prompts
\* nor writes, none of its steps changes the file, and it has read the
\* file before get_api_key returns; an invocation that found the file
\* absent is the only kind that writes, and it never reads the file.
C10_WrittenOnlyWhenAbsent ==
    /\ [](\A p \in procs :
            /\ inv[p].saw = "present" =>
                  /\ inv[p].prompts = 0 /\ inv[p].writes = 0
                  /\ inv[p].pc \in {"cli", "command", "done"} => inv[p].reads = 1
            /\ inv[p].writes > 0 => inv[p].saw = "absent"
            /\ inv[p].saw = "absent" => inv[p].reads = 0
            /\ inv[p].calls > 0 => inv[p].saw # "unknown")
    /\ [][\A p \in procs :
            inv[p].saw = "present" => config_file' = config_file]_vars

\* A second invocation found the file its predecessor wrote, and its
\* request failed.
C10_Witness ==
    \E p \in procs :
        /\ prev[p].valid /\ prev[p].writes = 1
        /\ Finished(inv[p]) /\ inv[p].saw = "present"
        /\ inv[p].calls = 1 /\ inv[p].err # "none"

====
